---- MODULE Spec2Model ----
(***************************************************************************)
(* Chunked download of price histories.                                    *)
(*                                                                         *)
(*   cryptos/update_short-term-30days.py : class IntradayDataDownloader    *)
(*       (__init__, adjust_dates, flatten_columns, download) and the       *)
(*       batch loop under __main__.                                        *)
(*   stocks/update_stocks_datasets.py    : main().                         *)
(*                                                                         *)
(* Time is counted in ticks, TicksPerDay ticks to a day, so that a         *)
(* timestamp carries a time of day and "%Y-%m-%d" formatting (DateOf) is   *)
(* not the identity.  The data provider, the wall clock and the disk are   *)
(* the environment: what they will do is fixed in the initial state        *)
(* (provider, provider_rest, clock, clock_step, disk) and consumed by the  *)
(* actions.  The clock does not run backwards between two reads.           *)
(***************************************************************************)
EXTENDS Integers, Sequences, FiniteSets, TLC

\* ---------------------------------------------------------------- bounds
TicksPerDay == 2
NowDay == 100
MaxSmallDays == 4
MaxChunkInput == 20
MaxKey == 2
MaxRows == 3
MaxFeed == 3
MaxWalk == 16
MaxTickers == 2

\* ------------------------------------------------------ program constants
MinuteHistoryLimit == 30
LongHistoryDefault == 90
OneMinuteChunkLimit == 8
DefaultChunk == 15

\* ------------------------------------------------------------- helpers
None == <<>>
Some(n) == <<n>>
Val(x) == x[1]

Days(n) == n * TicksPerDay

Min(a, b) == IF a < b THEN a ELSE b

\* strftime("%Y-%m-%d"): the calendar day a timestamp falls in.
DateOf(t) == t \div TicksPerDay

MinuteIntervals == {"1m", "2m", "5m", "15m", "30m"}
HourIntervals == {"60m", "90m", "1h"}

\* ----------------------------------------------- IntradayDataDownloader
\* __init__, lines 41-54: the total of historical days.
ResolveHistoricalDaysNoClamp(itv, days) ==
    IF days = None
    THEN IF itv \in MinuteIntervals THEN MinuteHistoryLimit
         ELSE IF itv \in HourIntervals THEN LongHistoryDefault
         ELSE MinuteHistoryLimit
    ELSE Val(days)

ResolveHistoricalDays(itv, days) ==
    IF days = None
    THEN IF itv \in MinuteIntervals THEN MinuteHistoryLimit
         ELSE IF itv \in HourIntervals THEN LongHistoryDefault
         ELSE MinuteHistoryLimit
    ELSE IF itv \in MinuteIntervals /\ Val(days) > MinuteHistoryLimit
         THEN MinuteHistoryLimit
         ELSE Val(days)

\* __init__, lines 61-69: the days per chunk.
ResolveChunkDays(itv, days) ==
    IF days = None
    THEN IF itv = "1m" THEN OneMinuteChunkLimit ELSE DefaultChunk
    ELSE IF itv = "1m" /\ Val(days) > OneMinuteChunkLimit
         THEN OneMinuteChunkLimit
         ELSE Val(days)

\* __init__, line 58, without the added day.
StartDateNoAdjust(t, days) == t - Days(days)

\* __init__, line 58.
StartDate(t, days) == t - Days(days) + Days(1)

\* adjust_dates, lines 78-82: t is the clock read at line 78.
AdjustDates(ed, t) == IF ed > t THEN t ELSE ed

\* download, line 114, without the min.
CurrentEndUnclamped(cs, chunk, ed) == cs + chunk

\* download, line 114.
CurrentEnd(cs, chunk, ed) == Min(cs + chunk, ed)

\* ------------------------------------------------------------ data frames
\* A column label is a plain name or a tuple (name, qualifier).
Plain(n) == [tuple |-> FALSE, name |-> n, qual |-> ""]
Tuple(n, q) == [tuple |-> TRUE, name |-> n, qual |-> q]

EmptyDataFrame == [columns |-> <<>>, rows |-> <<>>]

\* What one provider call answers: rows (their index values are keys), an
\* empty table, or an exception.
Empty == [kind |-> "empty", keys |-> <<>>]
Error == [kind |-> "error", keys |-> <<>>]
Rows(ks) == [kind |-> "rows", keys |-> ks]

\* The table yf.download returns for call number n: the index is named
\* idx, the columns are (field, symbol) pairs, and every row is tagged with
\* the call and the position it came from, so that rows are told apart.
RawFrame(out, n, idx, sym) ==
    [index_name |-> idx,
     columns |-> << Tuple("Close", sym) >>,
     rows |-> [i \in 1..Len(out.keys) |->
                 [key |-> out.keys[i], chunk |-> n, pos |-> i]]]

\* df.reset_index(inplace=True), line 126: the index becomes column 0.
ResetIndex(raw) ==
    [columns |-> << IF raw.columns[1].tuple
                    THEN Tuple(raw.index_name, "")
                    ELSE Plain(raw.index_name) >> \o raw.columns,
     rows |-> raw.rows]

\* The table Ticker.history returns (stocks, line 53): plain column names.
HistoryFrame(out, n, idx) ==
    [index_name |-> idx,
     columns |-> << Plain("Close") >>,
     rows |-> [i \in 1..Len(out.keys) |->
                 [key |-> out.keys[i], chunk |-> n, pos |-> i]]]

\* df.rename(columns={"Datetime": "Date"}), lines 98-99 (and stocks 64-65).
RenameDatetime(df) ==
    [columns |-> [i \in 1..Len(df.columns) |->
                    IF df.columns[i] = Plain("Datetime") THEN Plain("Date")
                    ELSE df.columns[i]],
     rows |-> df.rows]

\* flatten_columns, lines 90-101.
FlattenColumns(df) ==
    LET flat == [i \in 1..Len(df.columns) |->
                   IF df.columns[i].tuple
                   THEN Plain(df.columns[i].name)
                   ELSE df.columns[i]]
    IN RenameDatetime([columns |-> flat, rows |-> df.rows])

\* download, lines 125-130, with the "if not df.empty" test left out.
CollectAlways(frames, out, n, idx, sym) ==
    IF out.kind = "error" THEN frames
    ELSE Append(frames, FlattenColumns(ResetIndex(RawFrame(out, n, idx, sym))))

\* download, lines 117-132, with an exception discarding what was fetched.
CollectResetOnError(frames, out, n, idx, sym) ==
    IF out.kind = "rows"
    THEN Append(frames, FlattenColumns(ResetIndex(RawFrame(out, n, idx, sym))))
    ELSE IF out.kind = "error" THEN <<>> ELSE frames

\* download, lines 117-132: what one chunk adds to data_frames.
Collect(frames, out, n, idx, sym) ==
    IF out.kind = "rows"
    THEN Append(frames, FlattenColumns(ResetIndex(RawFrame(out, n, idx, sym))))
    ELSE frames

RECURSIVE ConcatRows(_)
ConcatRows(frames) ==
    IF frames = <<>> THEN <<>>
    ELSE Head(frames).rows \o ConcatRows(Tail(frames))

\* pd.concat(data_frames, ignore_index=True), line 137.
Concat(frames) ==
    [columns |-> Head(frames).columns, rows |-> ConcatRows(frames)]

RECURSIVE KeepFirst(_, _)
KeepFirst(rows, seen) ==
    IF rows = <<>> THEN <<>>
    ELSE IF Head(rows).key \in seen
         THEN KeepFirst(Tail(rows), seen)
         ELSE << Head(rows) >> \o KeepFirst(Tail(rows), seen \cup {Head(rows).key})

RECURSIVE KeepLast(_)
KeepLast(rows) ==
    IF rows = <<>> THEN <<>>
    ELSE IF \E j \in 2..Len(rows) : rows[j].key = Head(rows).key
         THEN KeepLast(Tail(rows))
         ELSE << Head(rows) >> \o KeepLast(Tail(rows))

\* keep='last' instead of keep='first'.
DropDuplicatesKeepLast(df) ==
    [columns |-> df.columns, rows |-> KeepLast(df.rows)]

RECURSIVE KeepFirstSkipping(_, _)
KeepFirstSkipping(rows, seen) ==
    IF rows = <<>> THEN <<>>
    ELSE IF Head(rows).key \in seen
         THEN IF Len(rows) = 1 THEN <<>>
              ELSE << rows[2] >>
                   \o KeepFirstSkipping(Tail(Tail(rows)), seen \cup {rows[2].key})
         ELSE << Head(rows) >>
              \o KeepFirstSkipping(Tail(rows), seen \cup {Head(rows).key})

\* Rows deleted while the table is being walked: the row after a deleted
\* one is never examined.
DropDuplicatesSkipping(df) ==
    [columns |-> df.columns, rows |-> KeepFirstSkipping(df.rows, {})]

\* result.drop_duplicates(subset=result.columns[0], keep='first'), line 139:
\* a row's value in column 0 is its key.
DropDuplicates(df) ==
    [columns |-> df.columns, rows |-> KeepFirst(df.rows, {})]

\* ------------------------------------------------------------ batch scripts
\* cryptos __main__, line 156.
intervalos == << "1m", "2m", "5m", "15m", "30m", "60m", "90m", "1h" >>

\* cryptos __main__, lines 157-166.
historicos(itv) ==
    CASE itv \in MinuteIntervals -> 30
      [] itv = "60m" -> 90
      [] itv = "90m" -> 60
      [] itv = "1h" -> 90

\* stocks main, lines 7-11.
intervals ==
    << "1m", "2m", "5m", "15m", "30m", "60m", "90m", "1h",
       "1d", "5d", "1wk", "1mo", "3mo" >>

\* stocks main, lines 14-28.
periodos_por_intervalo(itv) ==
    CASE itv = "1m" -> "7d"
      [] itv \in {"2m", "5m", "15m", "30m", "90m"} -> "60d"
      [] itv \in {"60m", "1h"} -> "730d"
      [] OTHER -> "max"

\* stocks main, line 33: blank lines and comment lines are dropped.
ParseTickers(lines) ==
    LET kept == SelectSeq(lines, LAMBDA l : l.kind = "ticker")
    IN [i \in 1..Len(kept) |-> kept[i].text]

\* cryptos __main__, line 153: json.load of a list of symbols.
LoadTickers(lines) == [i \in 1..Len(lines) |-> lines[i].text]

--------------------------------------------------------------------------
VARIABLES
    mode,                \* "call": the class used directly; "cryptos", "stocks": a batch script
    input_file,          \* the ticker list on disk: [exists, lines]
    main_pc,             \* where the batch script is
    tickers, ti, ii,     \* the loaded symbols and the loop indices (ticker, interval)
    processed,           \* the (ticker, interval) pairs the batch has started
    dl_pc,               \* where the downloader is
    ticker, interval,    \* self.ticker, self.interval
    arg_historical_days, \* the historical_days argument
    arg_chunk_days,      \* the chunk_days argument
    save_csv,            \* the save_csv argument
    historical_days,     \* historical_days after lines 41-54
    chunk_days,          \* chunk_days after lines 61-69
    now, now_adjust,     \* the clock as read at line 38 and at line 78
    start_date, end_date, max_chunk,
    current_start, current_end, data_frames,
    windows,             \* history: the windows the loop has formed
    calls,               \* history: the provider calls made, with their answers
    result,              \* what download returned
    files,               \* the output files written
    writes,              \* how many times to_csv has been called
    provider,            \* the answers the provider will give, call by call
    provider_rest,       \* its answer to every later call
    index_name,          \* the name of the index of the tables it returns
    clock, clock_step,   \* the wall clock, and how far it moves between two reads
    disk                 \* the to_csv calls (by number) that fail

vars == << mode, input_file, main_pc, tickers, ti, ii, processed, dl_pc,
           ticker, interval, arg_historical_days, arg_chunk_days, save_csv,
           historical_days, chunk_days, now, now_adjust, start_date, end_date,
           max_chunk, current_start, current_end, data_frames, windows, calls,
           result, files, writes, provider, provider_rest, index_name, clock,
           clock_step, disk >>

batch_vars == << mode, input_file, main_pc, tickers, ti, ii, processed >>
args_vars == << ticker, interval, arg_historical_days, arg_chunk_days, save_csv >>
request_vars == << historical_days, chunk_days, now, now_adjust, start_date,
                   end_date, max_chunk >>
env_vars == << index_name, clock, clock_step, disk >>

\* --------------------------------------------------------- the environment
\* The answer the provider gives to the next call.
NextAnswer == IF provider # <<>> THEN Head(provider) ELSE provider_rest
RestOfProvider == IF provider # <<>> THEN Tail(provider) ELSE provider

\* The histories keep their first MaxWalk entries.
Log(log, e) == IF Len(log) < MaxWalk THEN Append(log, e) ELSE log

KeySeqs(r) == UNION { [1..n -> 1..MaxKey] : n \in 1..r }
Answers(r) == {Empty, Error} \cup { Rows(ks) : ks \in KeySeqs(r) }

\* The provider scripts of n answers that hold at most r rows in all.
RECURSIVE Scripts(_, _)
Scripts(n, r) ==
    IF n = 0 THEN { <<>> }
    ELSE UNION { { << a >> \o s : s \in Scripts(n - 1, r - Len(a.keys)) }
                 : a \in Answers(r) }

Symbols == << "BTC-USD", "ETH-USD", "SOL-USD" >>
TickerLine(t) == [kind |-> "ticker", text |-> t]
BlankLine == [kind |-> "blank", text |-> ""]
CommentLine == [kind |-> "comment", text |-> "# watchlist"]

NoFile == [exists |-> FALSE, lines |-> <<>>]
File(ls) == [exists |-> TRUE, lines |-> ls]

\* cryptos.txt: a JSON list of symbols.
CryptoFiles ==
    { File([i \in 1..n |-> TickerLine(Symbols[i])])
        : n \in 0..Min(MaxTickers, Len(Symbols)) }

\* stocks.txt: symbols, blank lines and comment lines.
StockFiles ==
    { File(ls) : ls \in UNION { [1..n -> {TickerLine("AAPL"), TickerLine("MSFT"),
                                           BlankLine, CommentLine}]
                                : n \in 0..MaxTickers } }

CallIntervals == MinuteIntervals \cup HourIntervals \cup {"1d"}

\* The (historical_days, chunk_days) arguments tried: every small pair, and
\* the pairs at, above and far above the limits the constructor enforces.
SmallRequests ==
    { Some(n) : n \in 0..MaxSmallDays }
        \X ({None} \cup { Some(n) : n \in 0..MaxSmallDays })

LimitRequests ==
    ({None} \cup { Some(n) : n \in {MinuteHistoryLimit, MinuteHistoryLimit + 1,
                                     LongHistoryDefault} })
        \X ({None} \cup { Some(n) : n \in {0, OneMinuteChunkLimit,
                                            OneMinuteChunkLimit + 1, MaxChunkInput} })

Requests == SmallRequests \cup LimitRequests

\* ------------------------------------------------------------------- Init
\* Nothing constructed yet.
Blank ==
    /\ historical_days = 0 /\ chunk_days = 0
    /\ now = 0 /\ now_adjust = 0
    /\ start_date = 0 /\ end_date = 0 /\ max_chunk = 0
    /\ current_start = 0 /\ current_end = 0
    /\ data_frames = <<>> /\ windows = <<>> /\ calls = <<>>
    /\ result = EmptyDataFrame
    /\ files = {} /\ writes = 0
    /\ tickers = <<>> /\ ti = 1 /\ ii = 1 /\ processed = <<>>

\* The class used directly, over the arguments a caller may give.
InitCallRequests ==
    /\ mode = "call" /\ input_file = NoFile /\ main_pc = "none"
    /\ dl_pc = "new"
    /\ ticker = Symbols[1]
    /\ interval \in CallIntervals
    /\ \E r \in Requests : arg_historical_days = r[1] /\ arg_chunk_days = r[2]
    /\ save_csv = TRUE
    /\ provider = <<>> /\ provider_rest = Empty
    /\ index_name = "Datetime"
    /\ clock \in {Days(NowDay), Days(NowDay) + 1}
    /\ clock_step \in {0, 1}
    /\ disk = {}
    /\ Blank

\* The class used directly, over what the provider may answer.
InitCallAnswers ==
    /\ mode = "call" /\ input_file = NoFile /\ main_pc = "none"
    /\ dl_pc = "new"
    /\ ticker = Symbols[1]
    /\ interval = "1m"
    /\ arg_historical_days = Some(MaxFeed + 1)
    /\ arg_chunk_days = Some(1)
    /\ save_csv \in BOOLEAN
    /\ provider \in Scripts(MaxFeed, MaxRows) /\ provider_rest = Empty
    /\ index_name = "Datetime"
    /\ clock = Days(NowDay) + 1
    /\ clock_step = 0
    /\ disk \in IF save_csv THEN { {}, {1} } ELSE { {} }
    /\ Blank

\* The two batch scripts.
InitBatch ==
    /\ mode \in {"cryptos", "stocks"}
    /\ input_file \in {NoFile} \cup (IF mode = "cryptos" THEN CryptoFiles ELSE StockFiles)
    /\ main_pc = "start"
    /\ dl_pc = "idle"
    /\ ticker = "" /\ interval = ""
    /\ arg_historical_days = None /\ arg_chunk_days = None
    /\ save_csv = TRUE
    /\ provider = <<>> /\ provider_rest \in {Empty, Error, Rows(<< 1 >>)}
    /\ index_name \in {"Datetime", "Date"}
    /\ clock = Days(NowDay)
    /\ clock_step = 0
    /\ disk \in SUBSET (1..MaxTickers)
    /\ Blank

Init == InitCallRequests \/ InitCallAnswers \/ InitBatch

\* ------------------------------------------- IntradayDataDownloader actions
\* __init__, lines 32-72, adjust_dates included.  The output directory that
\* os.makedirs creates (line 36) is not part of the state.
Construct ==
    /\ dl_pc = "new"
    /\ now' = clock
    /\ historical_days' = ResolveHistoricalDays(interval, arg_historical_days)
    /\ chunk_days' = ResolveChunkDays(interval, arg_chunk_days)
    /\ start_date' = StartDate(now', historical_days')
    /\ max_chunk' = Days(chunk_days')
    /\ now_adjust' = clock + clock_step
    /\ end_date' = AdjustDates(now', now_adjust')
    /\ clock' = now_adjust'
    /\ dl_pc' = "ready"
    /\ UNCHANGED << batch_vars, args_vars, current_start, current_end, data_frames,
                    windows, calls, result, files, writes, provider, provider_rest,
                    index_name, clock_step, disk >>

\* download, lines 110-111.
DownloadEnter ==
    /\ dl_pc = "ready"
    /\ data_frames' = <<>>
    /\ current_start' = start_date
    /\ windows' = <<>>
    /\ calls' = <<>>
    /\ dl_pc' = "while"
    /\ UNCHANGED << batch_vars, args_vars, request_vars, current_end, result, files,
                    writes, provider, provider_rest, env_vars >>

\* download, lines 113-115: the loop test and the end of the next window.
WhileTest ==
    /\ dl_pc = "while"
    /\ IF current_start < end_date
       THEN /\ current_end' = CurrentEnd(current_start, max_chunk, end_date)
            /\ windows' = Log(windows, << current_start, current_end' >>)
            /\ dl_pc' = "chunk"
       ELSE /\ dl_pc' = "concat"
            /\ UNCHANGED << current_end, windows >>
    /\ UNCHANGED << batch_vars, args_vars, request_vars, current_start, data_frames,
                    calls, result, files, writes, provider, provider_rest, env_vars >>

\* download, lines 117-134: one chunk is asked for, kept if it has rows, and
\* the walk moves on.
Fetch ==
    /\ dl_pc = "chunk"
    /\ calls' = Log(calls, [symbol |-> ticker, interval |-> interval,
                            start |-> DateOf(current_start),
                            end |-> DateOf(current_end),
                            period |-> "",
                            answer |-> NextAnswer])
    /\ data_frames' = Collect(data_frames, NextAnswer, Len(calls) + 1,
                              index_name, ticker)
    /\ provider' = RestOfProvider
    /\ current_start' = current_end
    /\ dl_pc' = "while"
    /\ UNCHANGED << batch_vars, args_vars, request_vars, current_end, windows,
                    result, files, writes, provider_rest, env_vars >>

\* download, lines 136-147.
Finish ==
    /\ dl_pc = "concat"
    /\ IF data_frames # <<>>
       THEN LET res == DropDuplicates(Concat(data_frames)) IN
            IF save_csv
            THEN /\ writes' = writes + 1
                 /\ IF writes' \in disk
                    THEN /\ dl_pc' = "raised"
                         /\ UNCHANGED << result, files >>
                    ELSE /\ files' = files \cup
                               { [ticker |-> ticker, interval |-> interval,
                                  table |-> res] }
                         /\ result' = res
                         /\ dl_pc' = "returned"
            ELSE /\ result' = res
                 /\ dl_pc' = "returned"
                 /\ UNCHANGED << files, writes >>
       ELSE /\ result' = EmptyDataFrame
            /\ dl_pc' = "returned"
            /\ UNCHANGED << files, writes >>
    /\ UNCHANGED << batch_vars, args_vars, request_vars, current_start, current_end,
                    data_frames, windows, calls, provider, provider_rest, env_vars >>

\* ------------------------------------------------------ cryptos __main__
\* lines 152-153: the ticker list is loaded; a missing file is not caught.
CryptosLoad ==
    /\ mode = "cryptos" /\ main_pc = "start"
    /\ IF input_file.exists
       THEN /\ tickers' = LoadTickers(input_file.lines)
            /\ main_pc' = "loop"
       ELSE /\ main_pc' = "missing_file"
            /\ UNCHANGED tickers
    /\ UNCHANGED << mode, input_file, ti, ii, processed, dl_pc, args_vars,
                    request_vars, current_start, current_end, data_frames, windows,
                    calls, result, files, writes, provider, provider_rest, env_vars >>

\* lines 169-184: the next (ticker, interval) pair gets its downloader.
CryptosPair ==
    /\ mode = "cryptos" /\ main_pc = "loop" /\ dl_pc = "idle"
    /\ ti <= Len(tickers)
    /\ ticker' = tickers[ti]
    /\ interval' = intervalos[ii]
    /\ arg_historical_days' = Some(historicos(interval'))
    /\ arg_chunk_days' = None
    /\ save_csv' = TRUE
    /\ processed' = Append(processed, << ti, ii >>)
    /\ dl_pc' = "new"
    /\ UNCHANGED << mode, input_file, main_pc, tickers, ti, ii, request_vars,
                    current_start, current_end, data_frames, windows, calls, result,
                    files, writes, provider, provider_rest, env_vars >>

\* line 185, download returned: on to the next pair.
CryptosReturn ==
    /\ mode = "cryptos" /\ main_pc = "loop" /\ dl_pc = "returned"
    /\ IF ii < Len(intervalos)
       THEN ii' = ii + 1 /\ ti' = ti
       ELSE ii' = 1 /\ ti' = ti + 1
    /\ dl_pc' = "idle"
    /\ UNCHANGED << mode, input_file, main_pc, tickers, processed, args_vars,
                    request_vars, current_start, current_end, data_frames, windows,
                    calls, result, files, writes, provider, provider_rest, env_vars >>

\* line 185, download raised: nothing catches it, the script ends.
CryptosRaise ==
    /\ mode = "cryptos" /\ main_pc = "loop" /\ dl_pc = "raised"
    /\ main_pc' = "crashed"
    /\ UNCHANGED << mode, input_file, tickers, ti, ii, processed, dl_pc, args_vars,
                    request_vars, current_start, current_end, data_frames, windows,
                    calls, result, files, writes, provider, provider_rest, env_vars >>

\* line 169: no ticker is left.
CryptosExit ==
    /\ mode = "cryptos" /\ main_pc = "loop" /\ dl_pc = "idle"
    /\ ti > Len(tickers)
    /\ main_pc' = "done"
    /\ UNCHANGED << mode, input_file, tickers, ti, ii, processed, dl_pc, args_vars,
                    request_vars, current_start, current_end, data_frames, windows,
                    calls, result, files, writes, provider, provider_rest, env_vars >>

\* ------------------------------------------------------------ stocks main
\* lines 31-36: the ticker list is loaded; a missing file ends the run.
StocksLoad ==
    /\ mode = "stocks" /\ main_pc = "start"
    /\ IF input_file.exists
       THEN /\ tickers' = ParseTickers(input_file.lines)
            /\ main_pc' = "loop"
       ELSE /\ main_pc' = "missing_file"
            /\ UNCHANGED tickers
    /\ UNCHANGED << mode, input_file, ti, ii, processed, dl_pc, args_vars,
                    request_vars, current_start, current_end, data_frames, windows,
                    calls, result, files, writes, provider, provider_rest, env_vars >>

\* lines 39-73: one (ticker, interval) pair is fetched and saved; a failed
\* fetch, an empty table and a failed write are reported and skipped.  The
\* folder that os.makedirs creates (line 43) is not part of the state.
StocksInterval ==
    /\ mode = "stocks" /\ main_pc = "loop"
    /\ ti <= Len(tickers)
    /\ ticker' = tickers[ti]
    /\ interval' = intervals[ii]
    /\ processed' = Append(processed, << ti, ii >>)
    /\ calls' = Log(calls, [symbol |-> ticker', interval |-> interval',
                            start |-> 0, end |-> 0,
                            period |-> periodos_por_intervalo(interval'),
                            answer |-> NextAnswer])
    /\ provider' = RestOfProvider
    /\ IF NextAnswer.kind = "rows"
       THEN /\ writes' = writes + 1
            /\ files' = IF writes' \in disk THEN files
                        ELSE files \cup
                             { [ticker |-> ticker', interval |-> interval',
                                table |-> RenameDatetime(ResetIndex(
                                    HistoryFrame(NextAnswer, Len(calls) + 1,
                                                 index_name)))] }
       ELSE UNCHANGED << files, writes >>
    /\ IF ii < Len(intervals)
       THEN ii' = ii + 1 /\ ti' = ti
       ELSE ii' = 1 /\ ti' = ti + 1
    /\ UNCHANGED << mode, input_file, main_pc, tickers, dl_pc, arg_historical_days,
                    arg_chunk_days, save_csv, request_vars, current_start,
                    current_end, data_frames, windows, result, provider_rest,
                    env_vars >>

\* line 39: no ticker is left.
StocksExit ==
    /\ mode = "stocks" /\ main_pc = "loop"
    /\ ti > Len(tickers)
    /\ main_pc' = "done"
    /\ UNCHANGED << mode, input_file, tickers, ti, ii, processed, dl_pc, args_vars,
                    request_vars, current_start, current_end, data_frames, windows,
                    calls, result, files, writes, provider, provider_rest, env_vars >>

\* -------------------------------------------------------- specifications
Next ==
    \/ Construct
    \/ DownloadEnter
    \/ WhileTest
    \/ Fetch
    \/ Finish
    \/ CryptosLoad
    \/ CryptosPair
    \/ CryptosReturn
    \/ CryptosRaise
    \/ CryptosExit
    \/ StocksLoad
    \/ StocksInterval
    \/ StocksExit

Spec == Init /\ [][Next]_vars

\* Execution is sequential and nothing suspends it: a step that can be
\* taken is taken.
FairSpec == Init /\ [][Next]_vars /\ WF_vars(Next)

\* ------------------------------------------------------------------ claims
\* The constructor has run for the current request.
Resolved == dl_pc \in {"ready", "while", "chunk", "concat", "returned", "raised"}

\* The loop of download has been left.
WalkOver == dl_pc \in {"concat", "returned", "raised"}

Span(w) == w[2] - w[1]
Spans(ws) == [i \in 1..Len(ws) |-> Span(ws[i])]

Contiguous(ws) == \A i \in 1..(Len(ws) - 1) : ws[i + 1][1] = ws[i][2]

\* C1 as the specification states it: a request resolved to 30 historical
\* days and 8 days per chunk is walked in exactly 4 windows of 8, 8, 8 and 6
\* days, which cover the 30 days ending at now without gap or overlap.
C1_SpansAsClaimed ==
    (WalkOver /\ historical_days = 30 /\ chunk_days = 8) =>
        /\ Spans(windows) = << Days(8), Days(8), Days(8), Days(6) >>
        /\ windows[1][1] = now - Days(30)
        /\ windows[Len(windows)][2] = now
        /\ Contiguous(windows)

\* C1, amended: a request resolved to 30 historical days and 8 days per
\* chunk is walked in exactly 4 windows of 8, 8, 8 and 5 days, which cover
\* the 29 days [now - 29 days, now) without gap or overlap (the start date is
\* now - 30 days + 1 day).
C1_Spans ==
    (WalkOver /\ historical_days = 30 /\ chunk_days = 8) =>
        /\ Spans(windows) = << Days(8), Days(8), Days(8), Days(5) >>
        /\ windows[1][1] = now - Days(29)
        /\ windows[Len(windows)][2] = now
        /\ Contiguous(windows)

C1_Witness ==
    /\ dl_pc = "returned"
    /\ interval = "1m" /\ arg_historical_days = None /\ arg_chunk_days = None
    /\ historical_days = 30 /\ chunk_days = 8 /\ end_date = now
    /\ Len(windows) = 4 /\ Len(calls) = 4

\* C4: the constructor takes every historical_days and chunk_days (given or
\* left out) and never refuses; for an interval of 1, 2, 5, 15 or 30 minutes
\* the resolved historical days are at most 30, and the start date lies at
\* most 29 days before now; for "1m" the resolved chunk is at most 8 days;
\* a given value within the limit is kept as it is.
C4_Clamped ==
    /\ dl_pc = "new" => ENABLED Construct
    /\ Resolved =>
        /\ interval \in MinuteIntervals =>
              /\ historical_days <= 30
              /\ now - start_date <= Days(29)
        /\ interval = "1m" => chunk_days <= 8 /\ max_chunk <= Days(8)
        /\ (arg_historical_days # None
              /\ (interval \in MinuteIntervals => Val(arg_historical_days) <= 30))
            => /\ historical_days = Val(arg_historical_days)
               /\ start_date = now - Days(Val(arg_historical_days)) + Days(1)
        /\ (arg_chunk_days # None
              /\ (interval = "1m" => Val(arg_chunk_days) <= 8))
            => /\ chunk_days = Val(arg_chunk_days)
               /\ max_chunk = Days(Val(arg_chunk_days))

C4_Witness ==
    /\ dl_pc = "ready"
    /\ interval = "1m"
    /\ arg_historical_days = Some(90) /\ historical_days = 30
    /\ arg_chunk_days = Some(20) /\ chunk_days = 8

\* C8: for a request with at least 1 historical day and at least 1 day per
\* chunk, the windows of the walk are an ordered partition of
\* [start_date, end_date): the first starts at start_date, each starts where
\* the one before ended, none is empty or longer than the chunk, only the
\* last may be shorter than the chunk, and the last ends at end_date.
C8_Partition ==
    (Resolved /\ dl_pc # "ready" /\ historical_days >= 1 /\ chunk_days >= 1) =>
        /\ Len(windows) < MaxWalk
        /\ windows # <<>> => windows[1][1] = start_date
        /\ Contiguous(windows)
        /\ \A i \in 1..Len(windows) :
              /\ windows[i][1] < windows[i][2]
              /\ Span(windows[i]) <= max_chunk
              /\ Span(windows[i]) < max_chunk =>
                    i = Len(windows) /\ windows[i][2] = end_date
        /\ dl_pc = "while" =>
              current_start = (IF windows = <<>> THEN start_date
                               ELSE windows[Len(windows)][2])
        /\ WalkOver =>
              IF start_date < end_date
              THEN windows # <<>> /\ windows[Len(windows)][2] = end_date
              ELSE windows = <<>>

C8_Witness ==
    /\ WalkOver /\ historical_days >= 1 /\ chunk_days >= 1
    /\ Len(windows) >= 3
    /\ Span(windows[Len(windows)]) < max_chunk
    /\ Span(windows[1]) = max_chunk

\* C10 as the specification states it: every request the constructor builds
\* has start_date <= end_date and end_date <= now (the clock adjust_dates
\* reads); when start_date = end_date, download fetches nothing and returns
\* an empty result.
C10_DatesOrdered ==
    Resolved =>
        /\ start_date <= end_date
        /\ end_date <= now_adjust
        /\ (WalkOver /\ start_date = end_date) =>
              /\ calls = <<>>
              /\ dl_pc = "returned" => result = EmptyDataFrame

\* C9 as the specification states it: for every request the constructor
\* accepts, the loop of download is left after finitely many fetches.
C9_WalkEnds == (dl_pc = "while") ~> (dl_pc = "concat")

\* The rows the provider gave in answer to call i of the current download.
Fetched(i) ==
    { [key |-> calls[i].answer.keys[j], chunk |-> i, pos |-> j]
        : j \in 1..Len(calls[i].answer.keys) }

RowsOf(df) == { df.rows[k] : k \in 1..Len(df.rows) }

\* Row q stands before row r in the concatenation of the fragments.
Before(q, r) == q.chunk < r.chunk \/ (q.chunk = r.chunk /\ q.pos < r.pos)

GaveRows == { i \in 1..Len(calls) : calls[i].answer.kind = "rows" }

\* A download of the class is under way or over (not the stocks script).
Downloading == dl_pc \in {"while", "chunk", "concat", "returned", "raised"}

\* Every window is asked for once, in order, by its two dates; a fetch that
\* fails or comes back empty changes nothing but the position of the walk;
\* download raises only where to_csv fails.
WalkIgnoresFailures ==
    /\ Len(windows) < MaxWalk =>
          /\ Len(calls) = (IF dl_pc = "chunk" THEN Len(windows) - 1 ELSE Len(windows))
          /\ \A i \in 1..Len(calls) :
                /\ calls[i].start = DateOf(windows[i][1])
                /\ calls[i].end = DateOf(windows[i][2])
                /\ calls[i].symbol = ticker /\ calls[i].interval = interval
          /\ Len(data_frames) = Cardinality(GaveRows)
          /\ \A i \in GaveRows : \E k \in 1..Len(data_frames) :
                RowsOf(data_frames[k]) = Fetched(i)
    /\ dl_pc = "chunk" => ENABLED Fetch
    /\ dl_pc = "raised" => save_csv /\ writes \in disk /\ GaveRows # {}

\* C2 as the specification states it: whatever the fetches answer (rows, an
\* empty table, an exception), download asks for every window once and in
\* order, raises for no fetch, and returns a result that holds the rows of
\* every window that gave rows.
C2_AllRowsReturned ==
    Downloading =>
        /\ WalkIgnoresFailures
        /\ dl_pc = "returned" =>
              \A i \in GaveRows : Fetched(i) \subseteq RowsOf(result)

\* C2, amended: whatever the fetches answer, download asks for every window
\* once and in order, raises for no fetch, and returns a result that holds
\* every row of every window that gave rows, except the rows whose
\* first-column value an earlier row already has (deduplication drops them).
C2_Isolation ==
    Downloading =>
        /\ WalkIgnoresFailures
        /\ dl_pc = "returned" =>
              \A i \in GaveRows : \A r \in Fetched(i) :
                 \/ r \in RowsOf(result)
                 \/ \E q \in RowsOf(result) : q.key = r.key /\ Before(q, r)

C2_Witness ==
    /\ dl_pc = "returned"
    /\ Len(calls) = 3
    /\ calls[1].answer.kind = "rows"
    /\ calls[2].answer.kind = "error"
    /\ calls[3].answer.kind = "rows"
    /\ Fetched(1) \cup Fetched(3) \subseteq RowsOf(result)

\* C5: the result of download is the fetched fragments put end to end in
\* chunk order, less the duplicates by first-column value: no two rows of
\* it share a key, the row kept for a key is the first one that has it (the
\* one of the earliest chunk), every fetched key is in it, and its rows
\* stand in the order they had in the concatenation.
C5_KeepFirst ==
    (dl_pc = "returned" /\ Len(calls) < MaxWalk) =>
        LET all == UNION { Fetched(i) : i \in GaveRows }
            n == Len(result.rows)
        IN /\ RowsOf(result) \subseteq all
           /\ \A i, j \in 1..n : i # j => result.rows[i].key # result.rows[j].key
           /\ \A r \in RowsOf(result) : \A q \in all :
                 q.key = r.key => (q = r \/ Before(r, q))
           /\ \A q \in all : \E r \in RowsOf(result) : r.key = q.key
           /\ \A i, j \in 1..n : i < j => Before(result.rows[i], result.rows[j])

C5_Witness ==
    /\ dl_pc = "returned"
    /\ \E i, j \in GaveRows :
          /\ i < j
          /\ \E r \in Fetched(i) : \E q \in Fetched(j) :
                q.key = r.key /\ r \in RowsOf(result) /\ q \notin RowsOf(result)
    /\ \E i \in GaveRows : \E r, q \in Fetched(i) : r.key # q.key

\* C6: dropping the duplicates of a result that download returned gives
\* that result back, rows and order unchanged.
C6_Idempotent ==
    dl_pc = "returned" => DropDuplicates(result) = result

C6_Witness ==
    /\ dl_pc = "returned"
    /\ data_frames # <<>>
    /\ Len(result.rows) < Len(ConcatRows(data_frames))
    /\ Len(result.rows) >= 2

HasFile == \E f \in files : f.ticker = ticker /\ f.interval = interval

\* C7: when no window gave rows (all empty or failed, or no window at all),
\* download returns an empty result, does not raise and writes no file; the
\* file of a request is written only if some window gave rows and save_csv
\* is true.
C7_NothingToSave ==
    /\ (WalkOver /\ GaveRows = {}) =>
          /\ dl_pc # "raised"
          /\ dl_pc = "returned" => result = EmptyDataFrame /\ ~HasFile
          /\ dl_pc = "concat" => ENABLED Finish /\ ~HasFile
    /\ (Downloading /\ HasFile) =>
          /\ dl_pc = "returned" /\ save_csv /\ GaveRows # {}
          /\ \E f \in files : f.ticker = ticker /\ f.interval = interval
                                /\ f.table = result /\ result.rows # <<>>

C7_Witness ==
    /\ dl_pc = "returned"
    /\ save_csv
    /\ Len(calls) = 3
    /\ \E i, j \in 1..3 : calls[i].answer.kind = "empty"
                            /\ calls[j].answer.kind = "error"
    /\ GaveRows = {}
    /\ result = EmptyDataFrame /\ files = {}

\* The (ticker, interval) pairs a batch script has to process, in order.
AllPairs(n) ==
    [k \in 1..(Len(tickers) * n) |-> << ((k - 1) \div n) + 1, ((k - 1) % n) + 1 >>]

\* C3 as the specification states it: in both batch scripts a missing
\* ticker list is the only thing that ends the run early; with the list
\* present the run ends only after every (ticker, interval) pair has been
\* processed, whatever writes failed.
C3_BatchSurvives ==
    (mode \in {"cryptos", "stocks"} /\ main_pc \in {"done", "missing_file", "crashed"}) =>
        IF input_file.exists
        THEN /\ main_pc = "done"
             /\ processed = AllPairs(IF mode = "cryptos" THEN Len(intervalos)
                                     ELSE Len(intervals))
        ELSE main_pc = "missing_file" /\ processed = <<>>

====
